---- MODULE Spec2Model ----
(***************************************************************************)
(* Model of rgb-obsidian-to-org (src/main.py): discovery of the vault,     *)
(* the multiprocessing pool that renders the notes, link resolution with   *)
(* lazy asset copy, and the on-disk pandoc cache.                          *)
(*                                                                         *)
(* Every string of the program (file names, link targets, titles, body     *)
(* text, formatted output) is a sequence of one-character strings, so that *)
(* splitting, joining, prefix tests and formatting are computed.           *)
(***************************************************************************)
EXTENDS Integers, Sequences, FiniteSets, TLC

\* Python's None; no character string equals it.
None == <<"None">>

\* ---------------------------------------------------------------- bounds
\* Largest value of mp.cpu_count() explored.
MaxCpu == 2
\* Number of successive runs of main() on the same vault, output tree and cache.
MaxRuns == 2

\* ------------------------------------------------------- character strings
UpperCase == {"A", "B", "F"}
LowerCase == {"a", "b", "c", "d", "f", "g", "h", "i", "k", "m", "n", "o", "p",
              "q", "r", "s", "t", "v", "x", "y", "z"}
Digits == {"0", "1", "2", "3", "4", "5", "6", "7", "8", "9"}

Lower(c) ==
    CASE c = "A" -> "a"
      [] c = "B" -> "b"
      [] c = "F" -> "f"
      [] OTHER -> c

IsAlnum(c) == c \in UpperCase \cup LowerCase \cup Digits

SetMax(S) == CHOOSE m \in S : \A x \in S : x <= m
SetMin(S) == CHOOSE m \in S : \A x \in S : m <= x

\* str.rfind(c), 1-based; 0 when c does not occur.
RFind(s, c) ==
    LET I == {i \in 1..Len(s) : s[i] = c}
    IN IF I = {} THEN 0 ELSE SetMax(I)

\* str.startswith(p)
StartsWith(s, p) == Len(s) >= Len(p) /\ SubSeq(s, 1, Len(p)) = p

\* `sub in s`
Contains(s, sub) ==
    \E i \in 1..(Len(s) + 1) :
        i + Len(sub) - 1 <= Len(s) /\ SubSeq(s, i, i + Len(sub) - 1) = sub

\* s.split("/")
RECURSIVE Split(_)
Split(s) ==
    LET I == {i \in 1..Len(s) : s[i] = "/"}
    IN IF I = {} THEN <<s>>
       ELSE LET i == SetMin(I)
            IN <<SubSeq(s, 1, i - 1)>> \o Split(SubSeq(s, i + 1, Len(s)))

\* "/".join(parts)
RECURSIVE Join(_)
Join(parts) ==
    IF parts = <<>> THEN <<>>
    ELSE IF Len(parts) = 1 THEN parts[1]
    ELSE parts[1] \o <<"/">> \o Join(Tail(parts))

\* ------------------------------------------------------------- pathlib.Path
\* A path is [abs, parts]: whether it is rooted, and its components.
IsPart(seg) == seg # <<>> /\ seg # <<".">>

\* Path(s): empty and "." components are dropped, ".." is kept.
PathOf(s) ==
    [abs |-> (Len(s) > 0 /\ s[1] = "/"), parts |-> SelectSeq(Split(s), IsPart)]

\* str(path)
PathStr(p) ==
    IF p.abs THEN <<"/">> \o Join(p.parts)
    ELSE IF p.parts = <<>> THEN <<".">>
    ELSE Join(p.parts)

\* base / rel, for a relative rel
PathJoin(base, rel) == [abs |-> base.abs, parts |-> base.parts \o rel]

\* path.name
PathName(p) == IF p.parts = <<>> THEN <<>> ELSE p.parts[Len(p.parts)]

\* path.parent
PathParent(p) ==
    [abs |-> p.abs,
     parts |-> IF p.parts = <<>> THEN <<>> ELSE SubSeq(p.parts, 1, Len(p.parts) - 1)]

\* path.suffix, of a file name
NameSuffix(name) ==
    LET i == RFind(name, ".")
    IN IF 1 < i /\ i < Len(name) THEN SubSeq(name, i, Len(name)) ELSE <<>>

\* path.stem, of a file name
NameStem(name) ==
    LET i == RFind(name, ".")
    IN IF 1 < i /\ i < Len(name) THEN SubSeq(name, 1, i - 1) ELSE name

PathSuffix(p) == NameSuffix(PathName(p))
PathStem(p) == NameStem(PathName(p))

\* ------------------------------------------------------------------ slugify
\* slugify(text, separator="_"): lower-case, every run of characters that
\* are not alphanumeric becomes one separator, separators are stripped from
\* both ends.
RECURSIVE SlugRuns(_, _)
SlugRuns(s, pendingSep) ==
    IF s = <<>> THEN <<>>
    ELSE IF IsAlnum(s[1])
         THEN (IF pendingSep THEN <<"_">> ELSE <<>>) \o <<Lower(s[1])>>
              \o SlugRuns(Tail(s), FALSE)
         ELSE SlugRuns(Tail(s), TRUE)

RECURSIVE StripLeading(_)
StripLeading(s) ==
    IF s # <<>> /\ ~IsAlnum(s[1]) THEN StripLeading(Tail(s)) ELSE s

Slugify(s) == SlugRuns(StripLeading(s), FALSE)

\* ------------------------------------------------------------ vault files
\* A file of the vault: its path relative to the vault root, and what
\* frontmatter.loads gives for it: metadata `created` ([k, ts], k one of
\* "none" (key absent), "str" (a value without strftime), "datetime"),
\* metadata `title` (None when absent) and the body, a sequence of items
\* [k |-> "text", s] or [k |-> "wikilink", target, title].
Text(s) == [k |-> "text", s |-> s, target |-> <<>>, title |-> None]
Wiki(t, d) == [k |-> "wikilink", s |-> <<>>, target |-> t, title |-> d]
NoDate == [k |-> "none", ts |-> 0]
StrDate == [k |-> "str", ts |-> 0]
Date(n) == [k |-> "datetime", ts |-> n]
File(rel, created, title, body) ==
    [rel |-> rel, created |-> created, title |-> title, body |-> body]
Asset(rel) == File(rel, NoDate, None, <<>>)

\* Two notes that link to each other, to an asset (three spellings of its
\* path) and to nothing.
LinkVault ==
    << File(<< <<"n">>, <<"a",".","m","d">> >>, Date(1), <<"T","a">>,
            << Wiki(<<"n","/","B"," ","b">>, None),
               Wiki(<<"i","/","p",".","p","n","g">>, <<"p","i","c">>),
               Text(<<"*","t","*">>),
               Wiki(<<".","/","i","/","p",".","p","n","g">>, None) >>),
       Asset(<< <<"i">>, <<"p",".","p","n","g">> >>),
       File(<< <<"n">>, <<"B"," ","b",".","m","d">> >>, Date(2), None,
            << Wiki(<<"i","/","p",".","p","n","g">>, None),
               Wiki(<<"z","z">>, <<"d">>),
               Wiki(<<"q","/","z","z">>, None),
               Wiki(<<"n","/","a">>, <<"c">>) >>) >>

\* Two notes with the same stem and the same creation time, a note that
\* links to that stem, and a note whose stem differs from theirs by case.
ClashVault ==
    << File(<< <<"x">>, <<"f",".","m","d">> >>, Date(1), <<"o">>, << Text(<<"t">>) >>),
       File(<< <<"y">>, <<"f",".","m","d">> >>, Date(1), None, << Text(<<"t">>) >>),
       File(<< <<"x">>, <<"g",".","m","d">> >>, Date(2), <<>>,
            << Wiki(<<"z">>, None), Wiki(<<"x","/","f">>, None),
               Wiki(<<"F">>, None) >>),
       File(<< <<"F",".","m","d">> >>, Date(1), None,
            << Wiki(<<"g">>, None) >>) >>

\* Five notes, so that one worker gets chunks of two; the first has no
\* `created`, the fourth a `created` that is no timestamp.
BatchVault ==
    << File(<< <<"n">>, <<"a",".","m","d">> >>, NoDate, None, << Text(<<"a">>) >>),
       File(<< <<"n">>, <<"b",".","m","d">> >>, Date(2), None, << Text(<<"b">>) >>),
       File(<< <<"n">>, <<"c",".","m","d">> >>, Date(3), None,
            << Wiki(<<"i",".","j","p","g">>, None) >>),
       File(<< <<"n">>, <<"d",".","m","d">> >>, StrDate, None, << Text(<<"d">>) >>),
       File(<< <<"n">>, <<"f",".","m","d">> >>, Date(5), None,
            << Wiki(<<"i",".","j","p","g">>, None) >>),
       Asset(<< <<"i",".","j","p","g">> >>) >>

\* Files in reserved places, files of other types, a note whose stem is
\* the name of an asset, and an asset two directories deep.
MetaVault ==
    << File(<< <<"_","m">>, <<"r",".","m","d">> >>, Date(1), None, <<>>),
       File(<< <<"_","m">>, <<"s">>, <<"q",".","m","d">> >>, Date(2), None, <<>>),
       File(<< <<"n">>, <<"_","h",".","m","d">> >>, Date(3), None, <<>>),
       File(<< <<"c","o","n","f","i","g">>, <<"c",".","m","d">> >>, Date(4), None, <<>>),
       File(<< <<"n">>, <<"c","o","n","f","i","g">>, <<"d",".","m","d">> >>, Date(5),
            None, <<>>),
       File(<< <<"n">>, <<"k",".","m","d">> >>, Date(6), None,
            << Wiki(<<"q">>, None), Wiki(<<"_","m","/","i",".","p","n","g">>, None),
               Wiki(<<"_","m","/","s","/","j",".","p","n","g">>, <<"d">>) >>),
       File(<< <<"n">>, <<"x",".","t","x","t">> >>, Date(7), None, <<>>),
       File(<< <<"n">>, <<"i",".","p","n","g",".","m","d">> >>, Date(8), <<"T">>, <<>>),
       Asset(<< <<"_","m">>, <<"i",".","p","n","g">> >>),
       Asset(<< <<"_","m">>, <<"s">>, <<"j",".","p","n","g">> >>) >>

Vaults == {LinkVault, ClashVault, BatchVault, MetaVault}

\* Values of the command line's input_dir: a relative directory, the
\* current directory, and an absolute directory below one named config.
InputDirs ==
    { <<"v">>, <<".">>, <<"/","c","o","n","f","i","g","/","v">> }

CONTENT_SUFFIXES == { <<".","m","d">> }
ASSET_SUFFIXES == { <<".","j","p","g">>, <<".","p","n","g">> }

\* ------------------------------------------------------------------- state
VARIABLES
    fs,          \* the vault's files, in the order glob yields them
    inputDir,    \* args.input_dir
    cpu,         \* mp.cpu_count()
    run,         \* which run of main() this is
    pc,          \* main(): "scan", "pool", "done"
    scanI,       \* index in fs of the next path of the scan loop
    vault_map,   \* keys of vault_map (indices of fs), in insertion order
    asset_map,   \* keys of asset_map (indices of fs)
    taskq,       \* the pool's chunks not yet taken by a worker
    jobsLeft,    \* MapResult._number_left
    success,     \* MapResult._success
    wk,          \* the pool's worker processes
    outNotes,    \* note files of the output tree: name -> content
    outAssets,   \* asset files of the output tree (relative paths)
    outDirs,     \* directories of the output tree (relative paths)
    cache,       \* files of cache/pandoc: name -> [mtime, content]
    srcMtime,    \* st_mtime of each file of the vault
    failed,      \* history: notes whose process_note raised, this run
    copyFailed,  \* history: notes in which shutil.copy raised, this run
    rendered,    \* history: note -> content written for it, this run
    copiesBy,    \* history: copies of each asset by each worker, this run
    atStart,     \* history: outAssets when this run began
    assetHits,   \* history: assets some link looked up successfully, this run
    lastRes      \* history: the last call of ensure_link that ended: how,
                 \* its arguments, what it returned, whether it copied

vars == <<fs, inputDir, cpu, run, pc, scanI, vault_map, asset_map, taskq,
          jobsLeft, success, wk, outNotes, outAssets, outDirs, cache, srcMtime,
          failed, copyFailed, rendered, copiesBy, atStart, assetHits, lastRes>>

envVars == <<fs, inputDir, cpu>>
scanVars == <<scanI, vault_map, asset_map>>
poolVars == <<taskq, jobsLeft, success>>
histVars == <<failed, copyFailed, rendered, copiesBy, atStart, assetHits, lastRes>>

Workers == 1..cpu
IdleWorker == [pc |-> "idle", chunk |-> <<>>, body |-> <<>>, k |-> 0,
               out |-> <<>>, dest |-> <<>>]
NoRes == [kind |-> "none", target |-> <<>>, title |-> None, res |-> <<>>,
          copied |-> FALSE]

\* Time of the writes of run r, and of an edit of a source after run r.
RunTime(r) == 2 * r - 1
EditTime(r) == 2 * r

\* --------------------------------------------------------- NoteConverter
\* input_dir / vault_path
SourcePath(f) == PathJoin(PathOf(inputDir), f.rel)

\* slugify(self.source.stem, separator="_")
NoteSlug(f) == Slugify(NameStem(f.rel[Len(f.rel)]))

Digit(n) == CASE n = 0 -> "0" [] n = 1 -> "1" [] n = 2 -> "2" [] n = 3 -> "3"
              [] n = 4 -> "4" [] n = 5 -> "5" [] n = 6 -> "6" [] n = 7 -> "7"
              [] n = 8 -> "8" [] n = 9 -> "9"

\* created.strftime("%Y%m%d%H%M%S"): digits of fixed width
Strftime(ts) == <<Digit((ts \div 10) % 10), Digit(ts % 10)>>

\* self.meta["created"].strftime raises KeyError or AttributeError
OrgPathRaises(f) == f.created.k # "datetime"

\* org_path
OrgPath(f) ==
    Strftime(f.created.ts) \o <<"-">> \o NoteSlug(f) \o <<".","o","r","g">>

\* title
NoteTitle(f) ==
    IF f.title # None /\ f.title # <<>> THEN f.title
    ELSE NameStem(f.rel[Len(f.rel)])

\* get_org_meta: title and filetags
OrgMeta(f) ==
    [title |-> NoteTitle(f), filetags |-> <<":">> \o f.rel[1] \o <<":">>]

\* get_org_roam_link without its link_text argument: always the title.
GetOrgRoamLinkTitleOnly(f, link_text) ==
    <<"[","[","i","d",":">> \o NoteSlug(f) \o <<"]","[">> \o NoteTitle(f) \o <<"]","]">>

\* get_org_roam_link
GetOrgRoamLink(f, link_text) ==
    LET text == IF link_text = None THEN NoteTitle(f) ELSE link_text
    IN <<"[","[","i","d",":">> \o NoteSlug(f) \o <<"]","[">> \o text \o <<"]","]">>

\* pypandoc.convert_text, item by item: emphasis markers change, a
\* wikilink becomes the org link [[file:TARGET]] or [[file:TARGET][TITLE]].
ConvertChar(c) == IF c = "*" THEN "/" ELSE c
ConvertItem(it) ==
    IF it.k = "wikilink"
    THEN [k |-> "link", s |-> <<>>, target |-> it.target, title |-> it.title]
    ELSE [k |-> "text", s |-> [i \in 1..Len(it.s) |-> ConvertChar(it.s[i])],
          target |-> <<>>, title |-> None]
Convert(body) == [i \in 1..Len(body) |-> ConvertItem(body[i])]

\* _generate_org_content: whether the cache file is read
CacheIsFresh(c, name, mtime) ==
    name \in DOMAIN c /\ c[name].mtime > mtime

\* _generate_org_content: the text it returns
GenerateOrgContent(f, c, mtime) ==
    IF CacheIsFresh(c, OrgPath(f), mtime) THEN c[OrgPath(f)].content
    ELSE Convert(f.body)

\* _generate_org_content: what write_text stores (self._org_content, which
\* still holds its initial value "")
CacheWritten(f, transformed) == <<>>

\* _generate_org_content: the cache directory afterwards
CacheAfter(f, c, mtime, now) ==
    IF CacheIsFresh(c, OrgPath(f), mtime) THEN c
    ELSE [n \in DOMAIN c \cup {OrgPath(f)} |->
            IF n = OrgPath(f)
            THEN [mtime |-> now, content |-> CacheWritten(f, Convert(f.body))]
            ELSE c[n]]

\* as_org: the property drawer and metadata lines
OrgHead(f) ==
    <<":ID:", NoteSlug(f), "#+title:", OrgMeta(f).title,
      "#+filetags:", OrgMeta(f).filetags>>

\* ------------------------------------------------------------- discovery
\* The three `continue`s of main's loop for a content file.
Excluded(path) ==
    \/ StartsWith(PathStem(PathParent(path)), <<"_">>)
    \/ StartsWith(PathStem(path), <<"_">>)
    \/ Contains(PathStr(path), <<"/","c","o","n","f","i","g","/">>)

IsAssetPath(path) == PathSuffix(path) \in ASSET_SUFFIXES
IsNotePath(path) == PathSuffix(path) \in CONTENT_SUFFIXES /\ ~Excluded(path)

\* ---------------------------------------------------------- VaultConverter
\* from_stem without the test for more than one match: the first match.
FromStemFirst(vm, stem) ==
    LET matches == SelectSeq(vm, LAMBDA i : NameStem(fs[i].rel[Len(fs[i].rel)]) = stem)
    IN IF matches = <<>> THEN [k |-> "none", note |-> 0]
       ELSE [k |-> "note", note |-> matches[1]]

\* from_stem: the note with that stem ("note"), None ("none"), or the
\* ValueError for too many matches ("raise").
FromStem(vm, stem) ==
    LET matches == SelectSeq(vm, LAMBDA i : NameStem(fs[i].rel[Len(fs[i].rel)]) = stem)
    IN IF matches = <<>> THEN [k |-> "none", note |-> 0]
       ELSE IF Len(matches) > 1 THEN [k |-> "raise", note |-> 0]
       ELSE [k |-> "note", note |-> matches[1]]

\* requested_link.split("/")[-1]
LinkBase(requested_link) ==
    LET parts == Split(requested_link) IN parts[Len(parts)]

\* self.asset_map.get(link_path): the keys are paths relative to the vault
AssetGet(am, link_path) ==
    {a \in am : [abs |-> FALSE, parts |-> fs[a].rel] = link_path}

\* is_file() answering no whatever the output tree holds: copy always.
IsFileNever(assets, link_path) == FALSE

\* is_file() answering yes whatever the output tree holds: copy never.
IsFileAlways(assets, link_path) == TRUE

\* output_path.is_file(), for output_path = output_dir / link_path
IsFile(assets, link_path) == link_path.parts \in assets

\* output_path.parent.mkdir(parents=True, exist_ok=True)
Mkdir(dirs, parent) ==
    dirs \cup {SubSeq(parent, 1, n) : n \in 0..Len(parent)}

\* f"[[{link_path}]]"
PlainLink(link_path) == <<"[","[">> \o PathStr(link_path) \o <<"]","]">>

\* The placeholder without the test of link_text: always the target.
PlaceholderTargetOnly(requested_link, link_text) ==
    <<"/">> \o requested_link \o <<"/">>

\* the placeholder that ends ensure_link
Placeholder(requested_link, link_text) ==
    IF link_text # None /\ link_text # <<>>
    THEN <<"/">> \o link_text \o <<"/">>
    ELSE <<"/">> \o requested_link \o <<"/">>

\* ensure_link up to the test of output_path.is_file(): what the call does
\* next ("raise", "note", "asset", "copy", "placeholder") and, unless it
\* raises or has still to copy, what it returns.
EnsureLink(requested_link, link_text, assets) ==
    LET note == FromStem(vault_map, LinkBase(requested_link))
        link_path == PathOf(requested_link)
    IN IF note.k = "raise" THEN [kind |-> "raise", res |-> <<>>]
       ELSE IF note.k = "note"
       THEN [kind |-> "note", res |-> GetOrgRoamLink(fs[note.note], link_text)]
       ELSE IF AssetGet(asset_map, link_path) # {}
       THEN IF IsFile(assets, link_path)
            THEN [kind |-> "asset", res |-> PlainLink(link_path)]
            ELSE [kind |-> "copy", res |-> PlainLink(link_path)]
       ELSE [kind |-> "placeholder", res |-> Placeholder(requested_link, link_text)]

\* ------------------------------------------------------------------- pool
\* Pool._map_async: the chunk size for n items and p processes
Chunksize(n, p) ==
    IF n = 0 THEN 0
    ELSE (n \div (p * 4)) + (IF n % (p * 4) # 0 THEN 1 ELSE 0)

\* Pool._get_tasks: consecutive batches of `size` items
RECURSIVE Chunks(_, _)
Chunks(items, size) ==
    IF items = <<>> THEN <<>>
    ELSE IF Len(items) <= size THEN <<items>>
    ELSE <<SubSeq(items, 1, size)>> \o Chunks(SubSeq(items, size + 1, Len(items)), size)

\* ------------------------------------------------------------------- Init
Init ==
    /\ fs \in Vaults
    /\ inputDir \in InputDirs
    /\ cpu \in 1..MaxCpu
    /\ run = 1
    /\ pc = "scan"
    /\ scanI = 1
    /\ vault_map = <<>>
    /\ asset_map = {}
    /\ taskq = <<>>
    /\ jobsLeft = 0
    /\ success = TRUE
    /\ wk = [w \in Workers |-> IdleWorker]
    /\ outNotes = <<>>
    /\ outAssets = {}
    /\ outDirs = {<<>>}
    /\ cache = <<>>
    /\ srcMtime = [i \in 1..Len(fs) |-> 0]
    /\ failed = {}
    /\ copyFailed = {}
    /\ rendered = <<>>
    /\ copiesBy = [w \in Workers |-> <<>>]
    /\ atStart = {}
    /\ assetHits = {}
    /\ lastRes = NoRes

\* ------------------------------------------------------------------- main
\* One iteration of `for path in input_dir.glob("**/*.*")`.
ScanStep ==
    /\ pc = "scan"
    /\ scanI <= Len(fs)
    /\ LET path == SourcePath(fs[scanI])
       IN IF IsAssetPath(path)
          THEN asset_map' = asset_map \cup {scanI} /\ vault_map' = vault_map
          ELSE IF IsNotePath(path)
          THEN vault_map' = Append(vault_map, scanI) /\ asset_map' = asset_map
          ELSE UNCHANGED <<vault_map, asset_map>>
    /\ scanI' = scanI + 1
    /\ UNCHANGED <<envVars, run, pc, poolVars, wk, outNotes, outAssets, outDirs,
                   cache, srcMtime, histVars>>

\* pool.map is called: the notes are cut into chunks and queued.
StartPool ==
    /\ pc = "scan"
    /\ scanI > Len(fs)
    /\ pc' = "pool"
    /\ taskq' = Chunks(vault_map, Chunksize(Len(vault_map), cpu))
    /\ jobsLeft' = Len(taskq')
    /\ success' = TRUE
    /\ UNCHANGED <<envVars, run, scanVars, wk, outNotes, outAssets, outDirs,
                   cache, srcMtime, histVars>>

\* A worker takes the next chunk.
TakeChunk(w) ==
    /\ pc = "pool"
    /\ wk[w].pc = "idle"
    /\ taskq # <<>>
    /\ wk' = [wk EXCEPT ![w] = [IdleWorker EXCEPT !.pc = "chunk", !.chunk = Head(taskq)]]
    /\ taskq' = Tail(taskq)
    /\ UNCHANGED <<envVars, run, pc, scanVars, jobsLeft, success, outNotes,
                   outAssets, outDirs, cache, srcMtime, histVars>>

\* process_note raised: mapstar drops the rest of the chunk, the worker
\* reports the chunk as failed and is free for the next.
Raised(w) ==
    /\ wk' = [wk EXCEPT ![w] = IdleWorker]
    /\ failed' = failed \cup {Head(wk[w].chunk)}
    /\ success' = FALSE
    /\ jobsLeft' = jobsLeft - 1

\* process_note returned: the chunk goes on, or is reported as done.
Returned(w) ==
    IF Len(wk[w].chunk) > 1
    THEN /\ wk' = [wk EXCEPT ![w] = [IdleWorker EXCEPT !.pc = "chunk",
                                                        !.chunk = Tail(wk[w].chunk)]]
         /\ UNCHANGED <<jobsLeft, success>>
    ELSE /\ wk' = [wk EXCEPT ![w] = IdleWorker]
         /\ jobsLeft' = jobsLeft - 1
         /\ UNCHANGED success

\* process_note up to the substitution: org_path, then as_org with the
\* cache lookup and the cache write.
StartNote(w) ==
    /\ pc = "pool"
    /\ wk[w].pc = "chunk"
    /\ LET i == Head(wk[w].chunk)
           f == fs[i]
       IN IF OrgPathRaises(f)
          THEN /\ Raised(w)
               /\ UNCHANGED cache
          ELSE /\ wk' = [wk EXCEPT ![w].pc = "sub",
                                   ![w].body = GenerateOrgContent(f, cache, srcMtime[i]),
                                   ![w].k = 0,
                                   ![w].out = <<>>]
               /\ cache' = CacheAfter(f, cache, srcMtime[i], RunTime(run))
               /\ UNCHANGED <<jobsLeft, success, failed>>
    /\ UNCHANGED <<envVars, run, pc, scanVars, taskq, outNotes, outAssets, outDirs,
                   srcMtime, copyFailed, rendered, copiesBy, atStart, assetHits,
                   lastRes>>

\* dict update: d[key] = val
Put(d, key, val) == [x \in DOMAIN d \cup {key} |-> IF x = key THEN val ELSE d[x]]

\* The next match of ORG_LINK after the first k items (0: none).
NextLink(body, k) ==
    LET J == {j \in (k + 1)..Len(body) : body[j].k = "link"}
    IN IF J = {} THEN 0 ELSE SetMin(J)

\* The text between matches, which re.sub copies as it is.
Copied(body, from, to) ==
    [n \in 1..(to - from + 1) |-> body[from + n - 1].s]

\* find_link for the next match of org_link.sub, up to the return of
\* ensure_link or to its test of output_path.is_file().
ResolveLink(w) ==
    /\ pc = "pool"
    /\ wk[w].pc = "sub"
    /\ NextLink(wk[w].body, wk[w].k) # 0
    /\ LET j == NextLink(wk[w].body, wk[w].k)
           link == wk[w].body[j]
           r == EnsureLink(link.target, link.title, outAssets)
           before == wk[w].out \o Copied(wk[w].body, wk[w].k + 1, j - 1)
           call == [kind |-> r.kind, target |-> link.target, title |-> link.title,
                    res |-> r.res, copied |-> FALSE]
       IN CASE r.kind = "raise" ->
                 /\ Raised(w)
                 /\ lastRes' = call
                 /\ UNCHANGED assetHits
            [] r.kind = "copy" ->
                 /\ wk' = [wk EXCEPT ![w].pc = "copy", ![w].k = j, ![w].out = before,
                                     ![w].dest = PathOf(link.target).parts]
                 /\ assetHits' = assetHits \cup {PathOf(link.target).parts}
                 /\ UNCHANGED <<jobsLeft, success, failed, lastRes>>
            [] OTHER ->
                 /\ wk' = [wk EXCEPT ![w].k = j, ![w].out = Append(before, r.res)]
                 /\ lastRes' = call
                 /\ assetHits' = IF r.kind = "asset"
                                 THEN assetHits \cup {PathOf(link.target).parts}
                                 ELSE assetHits
                 /\ UNCHANGED <<jobsLeft, success, failed>>
    /\ UNCHANGED <<envVars, run, pc, scanVars, taskq, outNotes, outAssets, outDirs,
                   cache, srcMtime, copyFailed, rendered, copiesBy, atStart>>

\* ensure_link after is_file() was false: mkdir, shutil.copy (which needs
\* the parent directory), and the return of the plain link.
CopyAsset(w) ==
    /\ pc = "pool"
    /\ wk[w].pc = "copy"
    /\ LET dest == wk[w].dest
           link == wk[w].body[wk[w].k]
           dirs == Mkdir(outDirs, SubSeq(dest, 1, Len(dest) - 1))
           n == IF dest \in DOMAIN copiesBy[w] THEN copiesBy[w][dest] ELSE 0
       IN /\ outDirs' = dirs
          /\ IF SubSeq(dest, 1, Len(dest) - 1) \in dirs
             THEN /\ outAssets' = outAssets \cup {dest}
                  /\ copiesBy' = [copiesBy EXCEPT ![w] = Put(copiesBy[w], dest, n + 1)]
                  /\ wk' = [wk EXCEPT ![w].pc = "sub", ![w].dest = <<>>,
                                      ![w].out = Append(wk[w].out,
                                                        PlainLink(PathOf(link.target)))]
                  /\ lastRes' = [kind |-> "asset", target |-> link.target,
                                 title |-> link.title,
                                 res |-> PlainLink(PathOf(link.target)),
                                 copied |-> TRUE]
                  /\ UNCHANGED <<jobsLeft, success, failed>>
             ELSE /\ Raised(w)
                  /\ UNCHANGED <<outAssets, copiesBy, lastRes>>
    /\ UNCHANGED <<envVars, run, pc, scanVars, taskq, outNotes, cache, srcMtime,
                   copyFailed, rendered, atStart, assetHits>>

\* shutil.copy raises (for instance PermissionError): nothing catches it.
CopyAssetFail(w) ==
    /\ pc = "pool"
    /\ wk[w].pc = "copy"
    /\ outDirs' = Mkdir(outDirs, SubSeq(wk[w].dest, 1, Len(wk[w].dest) - 1))
    /\ copyFailed' = copyFailed \cup {Head(wk[w].chunk)}
    /\ Raised(w)
    /\ lastRes' = [kind |-> "raise", target |-> wk[w].body[wk[w].k].target,
                   title |-> wk[w].body[wk[w].k].title, res |-> <<>>,
                   copied |-> FALSE]
    /\ UNCHANGED <<envVars, run, pc, scanVars, taskq, outNotes, outAssets, cache,
                   srcMtime, rendered, copiesBy, atStart, assetHits>>

\* org_link.sub has no more matches: org_path.write_text(org_content).
WriteNote(w) ==
    /\ pc = "pool"
    /\ wk[w].pc = "sub"
    /\ NextLink(wk[w].body, wk[w].k) = 0
    /\ LET i == Head(wk[w].chunk)
           content == [head |-> OrgHead(fs[i]),
                       body |-> wk[w].out
                                \o Copied(wk[w].body, wk[w].k + 1, Len(wk[w].body))]
       IN /\ outNotes' = Put(outNotes, OrgPath(fs[i]), content)
          /\ rendered' = Put(rendered, i, content)
    /\ Returned(w)
    /\ UNCHANGED <<envVars, run, pc, scanVars, taskq, outAssets, outDirs, cache,
                   srcMtime, failed, copyFailed, copiesBy, atStart, assetHits, lastRes>>

\* Every chunk is reported: pool.map returns, or raises the first exception.
PoolDone ==
    /\ pc = "pool"
    /\ taskq = <<>>
    /\ jobsLeft = 0
    /\ pc' = "done"
    /\ UNCHANGED <<envVars, run, scanVars, poolVars, wk, outNotes, outAssets,
                   outDirs, cache, srcMtime, histVars>>

\* ----------------------------------------------------------- environment
\* Between two runs the user edits a note (one edit is explored).
EditNote(i) ==
    /\ pc = "done"
    /\ run < MaxRuns
    /\ \A j \in 1..Len(fs) : srcMtime[j] = 0
    /\ srcMtime' = [srcMtime EXCEPT ![i] = EditTime(run)]
    /\ UNCHANGED <<envVars, run, pc, scanVars, poolVars, wk, outNotes, outAssets,
                   outDirs, cache, histVars>>

\* main() is run again on the same vault, output tree and cache.
Rerun ==
    /\ pc = "done"
    /\ run < MaxRuns
    /\ run' = run + 1
    /\ pc' = "scan"
    /\ scanI' = 1
    /\ vault_map' = <<>>
    /\ asset_map' = {}
    /\ taskq' = <<>>
    /\ jobsLeft' = 0
    /\ success' = TRUE
    /\ failed' = {}
    /\ copyFailed' = {}
    /\ rendered' = <<>>
    /\ copiesBy' = [w \in Workers |-> <<>>]
    /\ atStart' = outAssets
    /\ assetHits' = {}
    /\ lastRes' = NoRes
    /\ UNCHANGED <<envVars, wk, outNotes, outAssets, outDirs, cache, srcMtime>>

Next ==
    \/ ScanStep
    \/ StartPool
    \/ \E w \in Workers : TakeChunk(w)
    \/ \E w \in Workers : StartNote(w)
    \/ \E w \in Workers : ResolveLink(w)
    \/ \E w \in Workers : CopyAsset(w)
    \/ \E w \in Workers : WriteNote(w)
    \/ PoolDone
    \/ \E i \in 1..Len(fs) : EditNote(i)
    \/ Rerun

\* The output tree and the cache stay writable.
Spec == Init /\ [][Next]_vars

NextFault == Next \/ \E w \in Workers : CopyAssetFail(w)

\* shutil.copy may fail.
SpecFault == Init /\ [][NextFault]_vars

\* ------------------------------------------------------------ properties
\* The notes of the index.
Indexed == {vault_map[n] : n \in 1..Len(vault_map)}

StemOf(i) == NameStem(fs[i].rel[Len(fs[i].rel)])

\* The part of a link target after its last "/".
FinalSegment(target) == SubSeq(target, RFind(target, "/") + 1, Len(target))

\* The indexed notes whose stem is the final segment of the target.
StemMatches(target) == {i \in Indexed : StemOf(i) = FinalSegment(target)}

\* The relative paths of the indexed assets, as written.
AssetPaths == {Join(fs[a].rel) : a \in asset_map}

\* The target, read as a path, is the relative path of an indexed asset.
NamesAsset(target) ==
    \E a \in asset_map : PathOf(target) = [abs |-> FALSE, parts |-> fs[a].rel]

\* A call of ensure_link has ended in this run.
Called == lastRes.kind # "none"

\* A file is in the output tree at a relative path, below existing directories.
FileInOutput(parts) ==
    /\ parts \in outAssets
    /\ \A n \in 0..(Len(parts) - 1) : SubSeq(parts, 1, n) \in outDirs

\* What rendering a note gives when nothing else runs: its links replaced
\* by what ensure_link returns for them.
PureBody(items) ==
    [j \in 1..Len(items) |->
        IF items[j].k = "link"
        THEN EnsureLink(items[j].target, items[j].title, {}).res
        ELSE items[j].s]

\* The render of a note on its own raises: no usable `created`, or a link
\* to an ambiguous stem.
RenderRaises(i) ==
    \/ OrgPathRaises(fs[i])
    \/ \E j \in 1..Len(fs[i].body) :
          /\ fs[i].body[j].k = "wikilink"
          /\ Cardinality(StemMatches(fs[i].body[j].target)) > 1

\* The output of rendering the notes one after the other, in index order,
\* from an empty cache.
RECURSIVE SequentialOutput(_, _)
SequentialOutput(notes, out) ==
    IF notes = <<>> THEN out
    ELSE LET i == Head(notes)
         IN SequentialOutput(Tail(notes),
                IF RenderRaises(i) THEN out
                ELSE Put(out, OrgPath(fs[i]),
                         [head |-> OrgHead(fs[i]),
                          body |-> PureBody(Convert(fs[i].body))]))

CopyCount(w, d) == IF d \in DOMAIN copiesBy[w] THEN copiesBy[w][d] ELSE 0

RECURSIVE CopiesUpTo(_, _)
CopiesUpTo(w, d) == IF w = 0 THEN 0 ELSE CopyCount(w, d) + CopiesUpTo(w - 1, d)

\* How often the asset was written to the output tree in this run.
TotalCopies(d) == CopiesUpTo(cpu, d)

Destinations == UNION {DOMAIN copiesBy[w] : w \in Workers}

\* The claim's exclusion rule for a path inside the vault.
Reserved(rel) ==
    \/ \E n \in 1..(Len(rel) - 1) : StartsWith(rel[n], <<"_">>)
    \/ StartsWith(NameStem(rel[Len(rel)]), <<"_">>)
    \/ \E n \in 1..(Len(rel) - 1) : rel[n] = <<"c","o","n","f","i","g">>

\* C1: when the run has ended, every indexed note whose own render does not
\* fail has been rendered and written in this run, although the render of
\* another note failed.
C1_FailuresIsolated ==
    pc = "done" =>
        \A i \in Indexed : ~RenderRaises(i) => i \in DOMAIN rendered

\* C2: when the first run has ended, the note files of the output tree
\* are those that rendering the notes one after the other gives, with the
\* same contents, and no two rendered notes have the same output filename.
C2_SameAsSequential ==
    (pc = "done" /\ run = 1) =>
        /\ outNotes = SequentialOutput(vault_map, <<>>)
        /\ \A i, j \in Indexed :
              (i # j /\ ~RenderRaises(i) /\ ~RenderRaises(j))
                  => OrgPath(fs[i]) # OrgPath(fs[j])

\* C3 (as stated): in a run every asset is written to the output tree at
\* most once, never when it was there before, and only when a link resolved
\* to it.
C3_CopiedAtMostOnce ==
    \A d \in Destinations :
        TotalCopies(d) <= 1 /\ d \notin atStart /\ d \in assetHits

\* C3 (amended): in a run every worker writes an asset at most once, an
\* asset that was in the output tree when the run began is not written, and
\* an asset is written only when a link resolved to it.
C3_CopiedOncePerWorker ==
    \A w \in Workers : \A d \in DOMAIN copiesBy[w] :
        copiesBy[w][d] <= 1 /\ d \notin atStart /\ d \in assetHits

\* Two workers have both written the same asset in this run.
C3_Witness ==
    \E w1, w2 \in Workers : \E d \in DOMAIN copiesBy[w1] :
        w1 # w2 /\ d \in DOMAIN copiesBy[w2]

C5_CopyFailureFallsBack ==
    /\ copyFailed \cap failed = {}
    /\ pc = "done" => copyFailed \subseteq DOMAIN rendered

\* C6: a call of ensure_link whose target ends in the stem of exactly one
\* indexed note returns [[id:SLUG][TEXT]], TEXT being the display text if
\* the link has one, else the note's title if it has one, else its stem,
\* and copies no asset.
C6_UniqueStemLink ==
    (Called /\ Cardinality(StemMatches(lastRes.target)) = 1) =>
        LET n == CHOOSE i \in StemMatches(lastRes.target) : TRUE
            text == IF lastRes.title # None THEN lastRes.title
                    ELSE IF fs[n].title \notin {None, <<>>} THEN fs[n].title
                    ELSE StemOf(n)
        IN /\ lastRes.res = <<"[","[","i","d",":">> \o Slugify(StemOf(n))
                            \o <<"]","[">> \o text \o <<"]","]">>
           /\ lastRes.kind = "note"
           /\ ~lastRes.copied

\* A link whose target is the path of an asset and ends in the stem of one
\* note was resolved.
C6_Witness ==
    /\ Called
    /\ Cardinality(StemMatches(lastRes.target)) = 1
    /\ lastRes.target \in AssetPaths

\* C7: a call of ensure_link whose target ends in no note's stem and is the
\* relative path of an indexed asset returns [[TARGET]], and the asset is in
\* the output tree at that path, below created directories; when the run
\* has ended every asset a link resolved to is in the output tree.
C7_AssetLink ==
    /\ (Called /\ StemMatches(lastRes.target) = {} /\ lastRes.target \in AssetPaths)
          => /\ lastRes.res = <<"[","[">> \o lastRes.target \o <<"]","]">>
             /\ FileInOutput(Split(lastRes.target))
    /\ pc = "done" => \A d \in assetHits : FileInOutput(d)

\* A link with display text to an asset two directories deep was resolved,
\* and the call copied the asset.
C7_Witness ==
    /\ Called
    /\ StemMatches(lastRes.target) = {}
    /\ lastRes.target \in AssetPaths
    /\ lastRes.title # None
    /\ lastRes.copied
    /\ Len(Split(lastRes.target)) > 2

\* C8: a call of ensure_link whose target ends in no note's stem and names
\* no indexed asset does not raise and copies nothing; it returns /DISPLAY/
\* if the link has display text and /TARGET/ otherwise.
C8_Placeholder ==
    (Called /\ StemMatches(lastRes.target) = {} /\ ~NamesAsset(lastRes.target)) =>
        /\ lastRes.kind = "placeholder"
        /\ ~lastRes.copied
        /\ lastRes.res = IF lastRes.title # None
                         THEN <<"/">> \o lastRes.title \o <<"/">>
                         ELSE <<"/">> \o lastRes.target \o <<"/">>

\* A link without display text, with a directory in its target, was
\* resolved to the placeholder.
C8_Witness ==
    /\ Called
    /\ StemMatches(lastRes.target) = {}
    /\ ~NamesAsset(lastRes.target)
    /\ lastRes.title = None
    /\ RFind(lastRes.target, "/") > 0

\* C9: once the scan has ended, the index holds exactly the .md files that
\* are not below a directory whose name starts with "_", whose stem does not
\* start with "_", and whose path inside the vault has no directory config.
C9_DiscoveryExclusion ==
    pc # "scan" =>
        \A i \in 1..Len(fs) :
            i \in Indexed <=>
                /\ NameSuffix(fs[i].rel[Len(fs[i].rel)]) = <<".","m","d">>
                /\ ~Reserved(fs[i].rel)

\* C10: the body a worker rewrites and writes for a note is the conversion
\* of the note's source body, whatever the cache holds.
C10_BodyIsConverted ==
    \A w \in Workers :
        wk[w].pc \in {"sub", "copy"}
            => wk[w].body = Convert(fs[Head(wk[w].chunk)].body)

====
